---- MODULE Spec2Model ----
(***************************************************************************)
(* Model of tx_schools_scraper.py: the two-phase crawl of scrape_schools.   *)
(* Phase 1 (get_all_school_links_first) walks the paginated listing with    *)
(* one browser session; Phase 2 (process_school_links_parallel) fans the    *)
(* links out to batch workers, checkpoints after every collected batch and  *)
(* writes the final file.  The browser, the site and the worker pool are    *)
(* the environment: what they may answer is drawn with \E in each action.   *)
(***************************************************************************)
EXTENDS Integers, Sequences, FiniteSets, TLC

\* ------------------------------------------------------------------ bounds
\* Largest number of pages the simulated listing has.
MaxPages == 2
\* Rows of a full listing page (the last page holds 1..RowsPerPage rows).
RowsPerPage == 2
\* batch_size handed to process_school_links_parallel (50 in scrape_schools),
\* scaled down so that several batches, and a short last one, occur.
BatchSize == 2
\* Largest multiprocessing.cpu_count() of the machine.
MaxCpu == 3
\* Driver faults (timeouts, stalled clicks, failed navigations, failed
\* session start/stop) the environment injects in one run.
MaxFaults == 2
\* Fields of a validated record that carry an unusual value.
MaxDeviations == 1
\* Lines of an address block.
MaxLines == 2

\* ------------------------------------------------------- program constants
\* retry_operation(func, max_retries=3, ...)
max_retries == 3
\* the grade filters of get_all_school_links_first, by position in the list
\* ["Early Education", "Prekindergarten", "Kindergarten"]
Grades == <<"Early Education", "Prekindergarten", "Kindergarten">>

\* The final file before it is written.
NoFile == [written |-> FALSE]

VARIABLES
    \* configuration and site (fixed during a run)
    pages,            \* number of pages of the listing (non-empty pages)
    lastRows,         \* rows on the last page
    MAX_PAGES,        \* module-level page cap; 0 models None (both falsy)
    \* scrape_schools
    pc,               \* position of the main process
    driver,           \* Phase-1 session: "none", "open", "closed"
    faults,           \* driver faults injected so far
    \* get_all_school_links_first (locals and the browser it drives)
    grade,            \* index into Grades of the filter being applied
    attempt,          \* retry_operation's attempt for that filter
    curPage,          \* page the browser really shows
    page_number,
    last_page,
    all_links,
    walk,             \* trace of the walk (cleared when the walker returns)
    \* process_school_links_parallel
    link_batches,
    cpu_count,        \* multiprocessing.cpu_count() as read; 0 before
    num_processes,
    fut,              \* per batch: "pending", "running", "done", "failed"
    sess,             \* per batch worker: its session "none", "open", "closed"
    quits,            \* per batch worker: number of driver.quit() calls
    batch_data,       \* per batch worker: records appended so far
    outcomes,         \* per batch worker: what each processed link did
    ci,               \* index i of the collection loop
    all_school_data,
    progress,         \* checkpoint files: batch index -> rows
    final,            \* final file: NoFile or [written, first, last, rows]
    \* validate_school_data
    vpc,              \* "idle", or "input" -> "once" -> "twice" (calls made)
    school_data,      \* the record handed to validate_school_data
    report,           \* validation_results of the latest call
    first_report,     \* validation_results of the first call
    \* extract_school_data
    xpc,              \* "idle", or "body" -> "fields" -> "address" -> "validate"
                      \* -> "returned"
    page,             \* per looked-up field: its element "absent", "blank", "text"
    address_text,     \* text of the address element; None when it is not found
    data_fields       \* the record under construction

cfgvars == <<pages, lastRows, MAX_PAGES>>
walkvars == <<grade, attempt, curPage, page_number, last_page, all_links, walk>>
poolvars == <<link_batches, cpu_count, num_processes, fut, sess, quits, batch_data, outcomes>>
collvars == <<ci, all_school_data, progress, final>>
valvars == <<vpc, school_data, report, first_report>>
extvars == <<xpc, page, address_text, data_fields>>
fieldvars == <<valvars, extvars>>
vars == <<cfgvars, pc, driver, faults, walkvars, poolvars, collvars, fieldvars>>

\* ------------------------------------------------------------------ helpers
Range(s) == {s[k] : k \in 1..Len(s)}

RECURSIVE Flatten(_)
Flatten(ss) == IF ss = <<>> THEN <<>> ELSE Head(ss) \o Flatten(Tail(ss))

CanFault == faults < MaxFaults

\* The trace of one walk: which real page was read under which page_number,
\* the page_number values at which navigate_to_next_page was called, whether
\* the driver faulted while paging, and whether the walk ended in the except
\* clause of line 398.
NoWalk == [reads |-> <<>>, navs |-> {}, fault |-> FALSE, raised |-> FALSE]

\* ------------------------------------------------------------------ the site
\* Rows the table shows on real page p of the listing.
RowsOn(p) ==
    IF p < pages THEN RowsPerPage ELSE IF p = pages THEN lastRows ELSE 0

\* extract_school_links: one link per row, stamped with page_number.
PageLinks(p, n) == [r \in 1..RowsOn(p) |-> [href |-> <<p, r>>, page |-> n]]

\* ------------------------------------------------------------------ strings
\* A string is the sequence of its characters; None is the value of
\* data.get(field) for a field the record does not have.
None == <<"None">>
NotFound == <<"N", "o", "t", " ", "F", "o", "u", "n", "d">>

DigitChars == {"0", "1", "2", "3", "4", "5", "6", "7", "8", "9"}
LowerChars == <<"a", "b", "c", "d", "e", "f", "g", "h", "i", "j", "k", "l", "m",
                "n", "o", "p", "q", "r", "s", "t", "u", "v", "w", "x", "y", "z">>
UpperChars == <<"A", "B", "C", "D", "E", "F", "G", "H", "I", "J", "K", "L", "M",
                "N", "O", "P", "Q", "R", "S", "T", "U", "V", "W", "X", "Y", "Z">>
SpaceChars == {" ", "\t", "\n"}

IsDigit(c) == c \in DigitChars
IsAlpha(c) == c \in Range(LowerChars) \cup Range(UpperChars)
IsSpace(c) == c \in SpaceChars

\* str.isdigit(), str.isalpha(): every character, and at least one
isdigit(str) == str # <<>> /\ \A n \in 1..Len(str) : IsDigit(str[n])
isalpha(str) == str # <<>> /\ \A n \in 1..Len(str) : IsAlpha(str[n])

\* str.upper()
UpperOf(c) ==
    IF \E n \in 1..Len(LowerChars) : LowerChars[n] = c
    THEN UpperChars[CHOOSE n \in 1..Len(LowerChars) : LowerChars[n] = c]
    ELSE c
upper(str) == [n \in 1..Len(str) |-> UpperOf(str[n])]

\* str.strip()
RECURSIVE lstrip(_)
lstrip(str) ==
    IF str # <<>> /\ IsSpace(Head(str)) THEN lstrip(Tail(str)) ELSE str
RECURSIVE rstrip(_)
rstrip(str) ==
    IF str # <<>> /\ IsSpace(str[Len(str)])
    THEN rstrip(SubSeq(str, 1, Len(str) - 1)) ELSE str
strip(str) == rstrip(lstrip(str))

\* str.startswith(prefix)
startswith(str, prefix) ==
    Len(str) >= Len(prefix) /\ SubSeq(str, 1, Len(prefix)) = prefix

\* str.split(): the maximal runs of non-whitespace characters
RECURSIVE SplitRuns(_, _, _)
SplitRuns(str, cur, acc) ==
    IF str = <<>> THEN (IF cur = <<>> THEN acc ELSE Append(acc, cur))
    ELSE IF IsSpace(Head(str))
         THEN SplitRuns(Tail(str), <<>>, IF cur = <<>> THEN acc ELSE Append(acc, cur))
         ELSE SplitRuns(Tail(str), Append(cur, Head(str)), acc)
split(str) == SplitRuns(str, <<>>, <<>>)

\* str.replace(old, "") for a one-character old
remove(str, old) == SelectSeq(str, LAMBDA c : c # old)

\* ----------------------------------------------------- validate_school_data
valid_states ==
    { <<"A", "L">>, <<"A", "K">>, <<"A", "Z">>, <<"A", "R">>, <<"C", "A">>,
      <<"C", "O">>, <<"C", "T">>, <<"D", "E">>, <<"F", "L">>, <<"G", "A">>,
      <<"H", "I">>, <<"I", "D">>, <<"I", "L">>, <<"I", "N">>, <<"I", "A">>,
      <<"K", "S">>, <<"K", "Y">>, <<"L", "A">>, <<"M", "E">>, <<"M", "D">>,
      <<"M", "A">>, <<"M", "I">>, <<"M", "N">>, <<"M", "S">>, <<"M", "O">>,
      <<"M", "T">>, <<"N", "E">>, <<"N", "V">>, <<"N", "H">>, <<"N", "J">>,
      <<"N", "M">>, <<"N", "Y">>, <<"N", "C">>, <<"N", "D">>, <<"O", "H">>,
      <<"O", "K">>, <<"O", "R">>, <<"P", "A">>, <<"R", "I">>, <<"S", "C">>,
      <<"S", "D">>, <<"T", "N">>, <<"T", "X">>, <<"U", "T">>, <<"V", "T">>,
      <<"V", "A">>, <<"W", "A">>, <<"W", "V">>, <<"W", "I">>, <<"W", "Y">>,
      <<"D", "C">> }

\* Mutant: the phone accepted with 10 digits or more.
is_valid_phone_AtLeast(phone) == Len(SelectSeq(phone, IsDigit)) >= 10

\* digits = ''.join(filter(str.isdigit, phone)); return len(digits) == 10
is_valid_phone(phone) == Len(SelectSeq(phone, IsDigit)) = 10

\* Mutant: only https:// accepted.
is_valid_url_HttpsOnly(url) == startswith(url, <<"h", "t", "t", "p", "s", ":", "/", "/">>)

\* return url.startswith(('http://', 'https://'))
is_valid_url(url) ==
    \/ startswith(url, <<"h", "t", "t", "p", ":", "/", "/">>)
    \/ startswith(url, <<"h", "t", "t", "p", "s", ":", "/", "/">>)

\* Mutant: the test for a letter is missing.
is_valid_school_name_NoAlpha(name) == Len(name) >= 3

\* return len(name) >= 3 and any(c.isalpha() for c in name)
is_valid_school_name(name) ==
    Len(name) >= 3 /\ \E n \in 1..Len(name) : IsAlpha(name[n])

\* Mutant: the fields visited in alphabetical order.
required_fields_Sorted ==
    <<"Address 1", "City", "District", "Grades Served", "Phone",
      "Principal Name", "School Name", "School Website", "State", "Zip">>

\* The keys of required_fields, in the order the dict lists them.
required_fields ==
    <<"School Name", "Address 1", "City", "State", "Zip", "Phone",
      "School Website", "District", "Grades Served", "Principal Name">>

\* Mutant: issues kept from the call before.
InitialResults_Carried ==
    [is_valid |-> TRUE,
     issues |-> IF vpc = "once" THEN report.issues ELSE <<>>,
     score |-> 0]

\* validation_results = {"is_valid": True, "issues": [], "score": 0}
InitialResults == [is_valid |-> TRUE, issues |-> <<>>, score |-> 0]

\* Mutant: the sentinel is not tested.
Available_NoSentinel(v) == v # None /\ v # <<>>

\* if data.get(field) and data[field] != "Not Found"
Available(v) == v # None /\ v # <<>> /\ v # NotFound

\* The field-specific validations on the stripped value: the issue appended
\* before "continue", or "" when the field counts as filled.
RuleIssue(field, value) ==
    CASE field = "Zip" ->
            IF ~(isdigit(value) /\ Len(value) = 5)
            THEN "Invalid ZIP format - must be 5 digits" ELSE ""
      [] field = "State" ->
            IF upper(value) \notin valid_states
            THEN "Invalid state abbreviation" ELSE ""
      [] field = "Phone" ->
            IF ~is_valid_phone(value)
            THEN "Invalid phone number format" ELSE ""
      [] field = "School Website" ->
            IF ~is_valid_url(value)
            THEN "Invalid website URL format" ELSE ""
      [] field = "School Name" ->
            IF ~is_valid_school_name(value)
            THEN "Invalid school name format" ELSE ""
      [] field = "City" ->
            IF ~isalpha(remove(value, " "))
            THEN "City name should only contain letters" ELSE ""
      [] field = "Principal Name" ->
            IF Len(split(value)) < 2
            THEN "Principal name should include first and last name" ELSE ""
      [] OTHER -> ""

\* One iteration of "for field, message in required_fields.items()".
ValidateField(res, field, d) ==
    IF Available(d[field])
    THEN LET issue == RuleIssue(field, strip(d[field])) IN
         IF issue # ""
         THEN [res EXCEPT !.issues = Append(@, issue)]
         ELSE [res EXCEPT !.filled = @ + 1]
    ELSE [res EXCEPT !.issues = Append(@, field \o " not available")]

RECURSIVE ValidateFields(_, _, _)
ValidateFields(res, fields, d) ==
    IF fields = <<>> THEN res
    ELSE ValidateFields(ValidateField(res, Head(fields), d), Tail(fields), d)

\* Mutant: the factor 100 applied after the division.
Score_DivideFirst(filled, total) == (filled \div total) * 100

\* validation_results["score"] = (filled_fields * 100) // total_fields
Score(filled, total) == (filled * 100) \div total

validate_school_data(d) ==
    LET res == ValidateFields([issues |-> InitialResults.issues, filled |-> 0],
                              required_fields, d)
        score == Score(res.filled, Len(required_fields))
    IN [is_valid |-> score = 100, issues |-> res.issues, score |-> score]

\* No call made yet.
NoReport == [is_valid |-> TRUE, issues |-> <<>>, score |-> 0]
NoData == [f \in Range(required_fields) |-> None]

\* A call validate_school_data(school_data): the report is returned, the record is
\* only read.
Validate ==
    /\ vpc \in {"input", "once"}
    /\ report' = validate_school_data(school_data)
    /\ first_report' = IF vpc = "input" THEN report' ELSE first_report
    /\ vpc' = IF vpc = "input" THEN "once" ELSE "twice"
    /\ UNCHANGED <<school_data, extvars, cfgvars, pc, driver, faults, walkvars, poolvars, collvars>>

\* ------------------------------------------------------ extract_school_data
\* str.replace(old, ""): every occurrence of old removed, left to right
RECURSIVE replace(_, _)
replace(str, old) ==
    IF str = <<>> THEN <<>>
    ELSE IF startswith(str, old)
         THEN replace(SubSeq(str, Len(old) + 1, Len(str)), old)
         ELSE <<Head(str)>> \o replace(Tail(str), old)

\* str.split(sep): the pieces between the occurrences of sep, empty ones kept
RECURSIVE SplitPieces(_, _, _, _)
SplitPieces(str, sep, cur, acc) ==
    IF str = <<>> THEN Append(acc, cur)
    ELSE IF startswith(str, sep)
         THEN SplitPieces(SubSeq(str, Len(sep) + 1, Len(str)), sep, <<>>, Append(acc, cur))
         ELSE SplitPieces(Tail(str), sep, Append(cur, Head(str)), acc)
split_on(str, sep) == SplitPieces(str, sep, <<>>, <<>>)

\* data_fields as initialised, for page_number 1: every descriptive field is
\* "Not Found", the score 0 and the issues "".
DescriptiveFields ==
    {"School Name", "Address 1", "Address 2", "City", "State", "Zip", "Phone",
     "Principal Name", "School Website", "District", "Grades Served"}
InitialFields ==
    [f \in DescriptiveFields |-> NotFound]
    @@ ("Record Number" :> <<"0">>)
    @@ ("Page Number" :> <<"1">>)
    @@ ("Data Quality Score" :> 0)
    @@ ("Data Quality Issues" :> "")

\* The keys of xpath_mappings: Address 2, City, State and Zip are not among
\* them, so they are "Not Found" when the address pass starts.
xpath_fields ==
    <<"School Name", "Address 1", "Phone", "Principal Name", "School Website",
      "District", "Grades Served">>

\* The third element of a mapping, when there is one.
replace_text(field) ==
    CASE field = "Address 1" -> <<"A", "D", "D", "R", "E", "S", "S", ":", "\n">>
      [] field = "Phone" -> <<"P", "h", "o", "n", "e", ":", "\n">>
      [] field = "Principal Name" -> <<"P", "r", "i", "n", "c", "i", "p", "a", "l", " ", "N", "a", "m", "e", ":", "\n">>
      [] OTHER -> <<>>

\* No element of the page looked up.
NoPage == [f \in Range(xpath_fields) |-> "absent"]

AddressLabel == <<"A", "d", "d", "r", "e", "s", "s", ":", "\n">>

\* Mutant: two tokens or more are taken for state and zip.
TwoTokens_AtLeast(state_zip) == Len(state_zip) >= 2

\* if len(state_zip) == 2
TwoTokens(state_zip) == Len(state_zip) = 2

\* The body of the inner try once the element is found.
ParseAddress(fields, text) ==
    LET address_lines == split_on(strip(replace(text, AddressLabel)), <<"\n">>)
        city_state_zip == split_on(address_lines[Len(address_lines)], <<",", " ">>)
        state_zip == split(city_state_zip[2])
    IN IF Len(address_lines) >= 2
       THEN IF Len(city_state_zip) >= 2
            THEN IF TwoTokens(state_zip)
                 THEN [fields EXCEPT !["Address 2"] = address_lines[1],
                                     !["City"] = strip(city_state_zip[1]),
                                     !["State"] = state_zip[1],
                                     !["Zip"] = state_zip[2]]
                 ELSE [fields EXCEPT !["Address 2"] = address_lines[1],
                                     !["City"] = strip(city_state_zip[1])]
            ELSE [fields EXCEPT !["Address 2"] = address_lines[1]]
       ELSE fields

\* The address pass: find_element raises when the element is not there, and
\* the bare except swallows it; the function goes on to the validation.
AddressPass ==
    /\ xpc = "address"
    /\ data_fields' = IF address_text = None THEN data_fields
                      ELSE ParseAddress(data_fields, address_text)
    /\ xpc' = "validate"
    /\ UNCHANGED <<page, address_text, valvars, cfgvars, pc, driver, faults, walkvars, poolvars, collvars>>

\* ------------------------------------------------------------------ Init
InitPool ==
    /\ link_batches = <<>>
    /\ cpu_count = 0
    /\ num_processes = 0
    /\ fut = <<>>
    /\ sess = <<>>
    /\ quits = <<>>
    /\ batch_data = <<>>
    /\ outcomes = <<>>

Init ==
    /\ pages \in 0..MaxPages
    /\ lastRows \in IF pages = 0 THEN {RowsPerPage} ELSE 1..RowsPerPage
    /\ MAX_PAGES \in 0..MaxPages
    /\ pc = "start"
    /\ driver = "none"
    /\ faults = 0
    /\ grade = 1
    /\ attempt = 0
    /\ curPage = 1
    /\ page_number = 1
    /\ last_page = 1
    /\ all_links = <<>>
    /\ walk = NoWalk
    /\ InitPool
    /\ ci = 0
    /\ all_school_data = <<>>
    /\ progress = <<>>
    /\ final = NoFile
    /\ vpc = "idle"
    /\ school_data = NoData
    /\ report = NoReport
    /\ first_report = NoReport
    /\ xpc = "idle"
    /\ page = NoPage
    /\ address_text = None
    /\ data_fields = InitialFields

\* ------------------------------------------------------- scrape_schools (1)
\* driver = setup_driver(): outside the try, so a failure to start the
\* browser leaves scrape_schools by exception.
SetupDriver ==
    /\ pc = "start"
    /\ \/ /\ driver' = "open"
          /\ pc' = "load"
          /\ UNCHANGED faults
       \/ /\ CanFault
          /\ faults' = faults + 1
          /\ pc' = "done"
          /\ UNCHANGED driver
    /\ UNCHANGED <<cfgvars, fieldvars, walkvars, poolvars, collvars>>

\* driver.get(URL): an exception goes to the outer except ("General error").
GetURL ==
    /\ pc = "load"
    /\ \/ /\ pc' = "filter"
          /\ UNCHANGED faults
       \/ /\ CanFault
          /\ faults' = faults + 1
          /\ pc' = "done"
    /\ UNCHANGED <<cfgvars, fieldvars, driver, walkvars, poolvars, collvars>>

\* ------------------------------------------- get_all_school_links_first
\* retry_operation: the exception of the last attempt is re-raised.
LastAttempt(a) == a = max_retries - 1

\* Where the grade loop goes after filter g was selected or skipped.
AfterGrade(g) == IF g = Len(Grades) THEN "read" ELSE "filter"

\* One attempt of select_grade_level(driver, grade) under retry_operation.
\*   "true"  the option was clicked;
\*   "false" _select returned False (no exception, so no retry): the caller
\*           logs "Could not select grade" and continues with the next grade;
\*   "raise" a wait timed out or a click failed.
SelectGrade ==
    /\ pc = "filter"
    /\ \E res \in {"true", "false", "raise"} :
         IF res = "raise"
         THEN IF LastAttempt(attempt)
              THEN \* raise e: caught by the except of line 398, after the
                   \* paging loop, so the walker returns what it has.
                   /\ walk' = [walk EXCEPT !.raised = TRUE]
                   /\ pc' = "walked"
                   /\ UNCHANGED <<grade, attempt>>
              ELSE /\ attempt' = attempt + 1
                   /\ UNCHANGED <<pc, grade, walk>>
         ELSE /\ pc' = AfterGrade(grade)
              /\ grade' = IF grade = Len(Grades) THEN grade ELSE grade + 1
              /\ attempt' = 0
              /\ UNCHANGED walk
    /\ UNCHANGED <<cfgvars, fieldvars, driver, faults, curPage, page_number, last_page,
                   all_links, poolvars, collvars>>

\* Mutant: the cap compared without the "MAX_PAGES and" test for None.
CapReached_NoneUnchecked(n) == n >= MAX_PAGES

\* Mutant: the cap compared with > instead of >=.
CapReached_OffByOne(n) == MAX_PAGES # 0 /\ n > MAX_PAGES

\* if MAX_PAGES and page_number >= MAX_PAGES
CapReached(n) == MAX_PAGES # 0 /\ n >= MAX_PAGES

\* The first half of one iteration of the while loop: read the page, stop on
\* an empty page, extend all_links, stop at the cap.
\* extract_school_links returns [] when the table does not render in time.
ExtractLinks ==
    /\ pc = "read"
    /\ \E render \in {"ok", "timeout"} :
         /\ render = "timeout" => CanFault
         /\ faults' = IF render = "timeout" THEN faults + 1 ELSE faults
         /\ LET links == IF render = "ok" THEN PageLinks(curPage, page_number)
                                           ELSE <<>>
                w == [walk EXCEPT !.reads = Append(@, <<page_number, curPage>>),
                                  !.fault = @ \/ render = "timeout"]
            IN IF links = <<>>
               THEN /\ pc' = "walked"
                    /\ walk' = w
                    /\ UNCHANGED <<all_links, last_page>>
               ELSE /\ all_links' = all_links \o links
                    /\ last_page' = page_number
                    /\ walk' = w
                    /\ pc' = IF CapReached(page_number) THEN "walked" ELSE "nav"
    /\ UNCHANGED <<cfgvars, fieldvars, driver, grade, attempt, curPage, page_number,
                   poolvars, collvars>>

\* navigate_to_next_page looks for the button labelled current_page + 1.
NextButtonPresent(cur) == cur + 1 <= pages

\* The second half of the iteration: navigate_to_next_page, page_number += 1.
\*   "absent" no button for the next page: returns False;
\*   "error"  a wait, a lookup or both clicks raised: caught, returns False;
\*   "moved"  the click showed the next page: returns True;
\*   "stall"  the click did not change the page: returns True all the same.
Navigate ==
    /\ pc = "nav"
    /\ \E res \in {"absent", "error", "moved", "stall"} :
         /\ res = "absent" => ~NextButtonPresent(curPage)
         /\ res \in {"moved", "stall"} => NextButtonPresent(curPage)
         /\ res \in {"error", "stall"} => CanFault
         /\ faults' = IF res \in {"error", "stall"} THEN faults + 1 ELSE faults
         /\ LET w == [walk EXCEPT !.navs = @ \cup {page_number},
                                  !.fault = @ \/ res \in {"error", "stall"}]
            IN IF res \in {"absent", "error"}
               THEN /\ pc' = "walked"
                    /\ walk' = w
                    /\ UNCHANGED <<curPage, page_number>>
               ELSE /\ pc' = "read"
                    /\ walk' = w
                    /\ curPage' = IF res = "moved" THEN curPage + 1 ELSE curPage
                    /\ page_number' = page_number + 1
    /\ UNCHANGED <<cfgvars, fieldvars, driver, grade, attempt, last_page, all_links,
                   poolvars, collvars>>

\* ------------------------------------------------------- scrape_schools (2)
\* Mutant: the empty link set is not checked.
NoLinks_Never(links) == FALSE

\* if not all_links: logger.error(...); return
NoLinks(links) == links = <<>>

\* all_links, first_page, last_page = get_all_school_links_first(driver);
\* driver.quit(); the run ends here when no link was found.  The walker's
\* locals and the browser's page end with the call and the session.
PhaseOneReturn ==
    /\ pc = "walked"
    /\ driver' = "closed"
    /\ pc' = IF NoLinks(all_links) THEN "done" ELSE "pool"
    /\ grade' = 1
    /\ attempt' = 0
    /\ curPage' = 1
    /\ page_number' = 1
    /\ walk' = NoWalk
    /\ UNCHANGED <<cfgvars, fieldvars, faults, last_page, all_links, poolvars, collvars>>

\* ------------------------------------------ process_school_links_parallel
Min(a, b) == IF a <= b THEN a ELSE b

\* [links[i:i + batch_size] for i in range(0, len(links), batch_size)]
Batches(links, size) ==
    [k \in 1..((Len(links) + size - 1) \div size) |->
        SubSeq(links, (k - 1) * size + 1, Min(k * size, Len(links)))]

\* num_processes = multiprocessing.cpu_count() - 1
PoolSize(cpus) == cpus - 1

\* ProcessPoolExecutor(max_workers=n) raises ValueError unless n > 0; the
\* exception leaves process_school_links_parallel and is caught by the
\* except of scrape_schools.  Otherwise every batch is submitted.
StartPool ==
    /\ pc = "pool"
    /\ \E cpus \in 1..MaxCpu :
         /\ cpu_count' = cpus
         /\ num_processes' = PoolSize(cpus)
         /\ IF PoolSize(cpus) <= 0
            THEN /\ pc' = "done"
                 /\ UNCHANGED <<link_batches, fut, sess, quits, batch_data, outcomes>>
            ELSE LET b == Batches(all_links, BatchSize) IN
                 /\ pc' = "collect"
                 /\ link_batches' = b
                 /\ fut' = [k \in 1..Len(b) |-> "pending"]
                 /\ sess' = [k \in 1..Len(b) |-> "none"]
                 /\ quits' = [k \in 1..Len(b) |-> 0]
                 /\ batch_data' = [k \in 1..Len(b) |-> <<>>]
                 /\ outcomes' = [k \in 1..Len(b) |-> <<>>]
    /\ UNCHANGED <<cfgvars, fieldvars, driver, faults, walkvars, collvars>>

\* ----------------------------------------------------- process_school_batch
\* The pool runs at most num_processes batches at once, in submission order.
Running == {k \in 1..Len(fut) : fut[k] = "running"}

\* setup_driver() of a worker: before the try, so a browser that fails to
\* start makes the batch raise with no session acquired.
BatchStart(k) ==
    /\ fut[k] = "pending"
    /\ \A j \in 1..(k - 1) : fut[j] # "pending"
    /\ Cardinality(Running) < num_processes
    /\ \/ /\ fut' = [fut EXCEPT ![k] = "running"]
          /\ sess' = [sess EXCEPT ![k] = "open"]
          /\ UNCHANGED faults
       \/ /\ CanFault
          /\ faults' = faults + 1
          /\ fut' = [fut EXCEPT ![k] = "failed"]
          /\ UNCHANGED sess
    /\ UNCHANGED <<cfgvars, fieldvars, pc, driver, walkvars, link_batches, cpu_count, num_processes,
                   quits, batch_data, outcomes, collvars>>

\* extract_school_data always returns data_fields: filled and scored, or, when
\* its outer try fails (the body never loads), as initialised, unscored.
\* "Record Number" starts as "0"; "Page Number" is the link's page= token.
Record(link, scored) ==
    [href |-> link.href, page |-> link.page, num |-> 0, scored |-> scored]

\* One iteration of the for loop over links_batch, for one link.
\*   "ok"     the page loaded and was extracted;
\*   "naverr" driver.get(link) raised: logged, continue;
\*   "exterr" extract_school_data caught its own failure and returned the
\*            record it had.
LinkResult(data, link, res) ==
    CASE res = "ok" -> Append(data, Record(link, TRUE))
      [] res = "naverr" -> data
      [] res = "exterr" -> Append(data, Record(link, FALSE))

\* The for loop over links_batch, from its first link on: outcome res[n] for
\* the n-th link.
RECURSIVE ProcessLinks(_, _, _)
ProcessLinks(data, links, res) ==
    IF links = <<>> THEN data
    ELSE ProcessLinks(LinkResult(data, Head(links), Head(res)), Tail(links), Tail(res))

\* What the links of a batch of n links may do, within the faults left.
NonOk(res) == Cardinality({n \in DOMAIN res : res[n] # "ok"})
LinkOutcomes(n) ==
    {res \in [1..n -> {"ok", "naverr", "exterr"}] : faults + NonOk(res) <= MaxFaults}

\* Mutant: driver.quit() after the loop on the success path, not in finally.
SessionAtEnd_OnSuccess(res) ==
    IF \E n \in DOMAIN res : res[n] # "ok" THEN "open" ELSE "closed"

\* finally: driver.quit().  The session is released however the links went.
SessionAtEnd(res) == "closed"

\* The body of process_school_batch after setup_driver: the loop over the
\* batch (the worker's process and browser are its own: nothing it does is
\* seen outside before it ends), then finally: driver.quit(), then return
\* batch_data.  A quit that raises makes the batch raise instead of returning.
BatchRun(k) ==
    /\ fut[k] = "running"
    /\ \E res \in LinkOutcomes(Len(link_batches[k])), q \in {"done", "failed"} :
         LET used == faults + NonOk(res) + (IF q = "failed" THEN 1 ELSE 0) IN
         /\ used <= MaxFaults
         /\ faults' = used
         /\ batch_data' = [batch_data EXCEPT
                ![k] = ProcessLinks(<<>>, link_batches[k], res)]
         /\ outcomes' = [outcomes EXCEPT ![k] = res]
         /\ sess' = [sess EXCEPT ![k] = SessionAtEnd(res)]
         /\ quits' = [quits EXCEPT ![k] = IF SessionAtEnd(res) = "closed"
                                          THEN @ + 1 ELSE @]
         /\ fut' = [fut EXCEPT ![k] = q]
    /\ UNCHANGED <<cfgvars, fieldvars, pc, driver, walkvars, link_batches, cpu_count, num_processes,
                   collvars>>

\* ------------------------------------------------------------- save_to_csv
\* Mutant: record["Record Number"] = i, numbering from 0.
save_to_csv_ZeroBased(data) == [k \in 1..Len(data) |-> [data[k] EXCEPT !.num = k - 1]]

\* record["Record Number"] = i + 1 for i, record in enumerate(data): the
\* records are numbered in place, then written.
save_to_csv(data) == [k \in 1..Len(data) |-> [data[k] EXCEPT !.num = k]]

\* save_progress(data, f"progress_batch_{i}.csv"): the rows that land in the
\* checkpoint file.
save_progress(data) == save_to_csv(data)

\* Mutant: the batch's records put in front of the cumulative result.
Extend_Prepend(data, batch_results) == batch_results \o data

\* Mutant: all_school_data = batch_results instead of extend.
Extend_Overwrite(data, batch_results) == batch_results

\* all_school_data.extend(batch_results)
Extend(data, batch_results) == data \o batch_results

\* Mutant: checkpoints named from the last batch index down.
CheckpointName_Reversed(i) == Len(fut) - 1 - i

\* Mutant: checkpoints named from 1.
CheckpointName_OneBased(i) == i + 1

\* Mutant: a failed batch ends the collection loop.
NextIndex_Halt(i, status) == IF status = "failed" THEN Len(fut) ELSE i + 1

\* progress_batch_{i}.csv
CheckpointName(i) == i

\* The except clause of the collection loop only logs: whatever batch i did,
\* the loop goes on with batch i + 1.
NextIndex(i, status) == i + 1

\* One iteration of "for i, future in enumerate(futures)": future.result()
\* waits for batch i; its records are appended and the checkpoint written, or
\* its exception is logged.
Collect ==
    /\ pc = "collect"
    /\ ci < Len(fut)
    /\ fut[ci + 1] \in {"done", "failed"}
    /\ IF fut[ci + 1] = "done"
       THEN LET data == Extend(all_school_data, batch_data[ci + 1]) IN
            /\ all_school_data' = save_progress(data)
            /\ progress' = (CheckpointName(ci) :> save_progress(data)) @@ progress
       ELSE UNCHANGED <<all_school_data, progress>>
    /\ ci' = NextIndex(ci, fut[ci + 1])
    /\ UNCHANGED <<cfgvars, fieldvars, pc, driver, faults, walkvars, poolvars, final>>

\* if all_school_data: the final file is written only when there are records
HasData(data) == data # <<>>

\* The loop is over and the with block has waited for every worker: return
\* all_school_data; scrape_schools writes
\* schools_data_pages_{first_page}_to_{last_page}.csv when there is data.
SaveFinal ==
    /\ pc = "collect"
    /\ ci = Len(fut)
    /\ \A k \in 1..Len(fut) : fut[k] \in {"done", "failed"}
    /\ pc' = "done"
    /\ IF HasData(all_school_data)
       THEN /\ final' = [written |-> TRUE, first |-> 1, last |-> last_page,
                         rows |-> save_to_csv(all_school_data)]
            /\ all_school_data' = save_to_csv(all_school_data)
       ELSE UNCHANGED <<final, all_school_data>>
    /\ UNCHANGED <<cfgvars, fieldvars, driver, faults, walkvars, poolvars, ci, progress>>

Next ==
    \/ SetupDriver
    \/ GetURL
    \/ SelectGrade
    \/ ExtractLinks
    \/ Navigate
    \/ PhaseOneReturn
    \/ StartPool
    \/ \E k \in 1..Len(fut) : BatchStart(k)
    \/ \E k \in 1..Len(fut) : BatchRun(k)
    \/ Collect
    \/ SaveFinal

Spec == Init /\ [][Next]_vars

\* Phase 1 alone: scrape_schools up to the return of the Listing Walker.  It
\* runs in one thread that nothing suspends, so it takes its next step.
WalkNext ==
    \/ SetupDriver
    \/ GetURL
    \/ SelectGrade
    \/ ExtractLinks
    \/ Navigate

WalkSpec == Init /\ [][WalkNext]_vars /\ WF_vars(WalkNext)

\* ------------------------------------------ validate_school_data, on its own
\* The records handed to the validator.  Every field is either well-formed
\* (the values of the sample record of the test suite, shortened) or the
\* sentinel "Not Found"; at most MaxDeviations fields carry one of the values
\* below instead: malformed values the tests use, values with surrounding
\* whitespace or other letter case, phone numbers of 9, 10 and 11 digits, the
\* empty string, or no value at all (the field is absent from the record).
ValidValue(field) ==
    CASE field = "School Name" -> <<"O", "a", "k">>
      [] field = "Address 1" -> <<"1", " ", "E", "l", "m">>
      [] field = "City" -> <<"A", "u", "s", "t", "i", "n">>
      [] field = "State" -> <<"T", "X">>
      [] field = "Zip" -> <<"7", "8", "7", "0", "1">>
      [] field = "Phone" -> <<"5", "1", "2", "-", "5", "5", "5", "-", "0", "1", "2", "3">>
      [] field = "School Website" -> <<"h", "t", "t", "p", "s", ":", "/", "/", "t", ".", "c", "o">>
      [] field = "District" -> <<"I", "S", "D">>
      [] field = "Grades Served" -> <<"K", "-", "5">>
      [] field = "Principal Name" -> <<"J", "o", " ", "S", "m">>

RichValues(field) ==
    CASE field = "School Name" ->
            <<<<"A", "B">>, <<"1", "2", "3">>, None>>
      [] field = "Address 1" ->
            <<<<>>, <<" ">>>>
      [] field = "City" ->
            <<<<"A", "u", "1">>, <<"E", "l", " ", "P", "a", "s", "o">>>>
      [] field = "State" ->
            <<<<"t", "x">>, <<"X", "X">>>>
      [] field = "Zip" ->
            <<<<"1", "2", "3", "4">>, <<"1", "2", "a", "4", "5">>, <<" ", "7", "8", "7", "0", "1">>, None>>
      [] field = "Phone" ->
            <<<<"1", "2", "3", "-", "4", "5", "6", "-", "7", "8", "9">>, <<"(", "5", "1", "2", ")", " ", "5", "5", "5", "-", "0", "1", "2", "3">>, <<"1", "5", "1", "2", "5", "5", "5", "0", "1", "2", "3">>>>
      [] field = "School Website" ->
            <<<<"h", "t", "t", "p", ":", "/", "/", "t", ".", "c", "o">>, <<"f", "t", "p", ":", "/", "/", "t", ".", "c", "o">>>>
      [] field = "District" ->
            <<None>>
      [] field = "Grades Served" ->
            <<<<>>>>
      [] field = "Principal Name" ->
            <<<<"J", "o", "h", "n">>, <<"J", "o", " ", " ", "S", "m", " ", "X">>>>

InputRecord(core, rich) ==
    [f \in Range(required_fields) |->
        IF f \in DOMAIN rich THEN RichValues(f)[rich[f]]
        ELSE IF f \in core THEN ValidValue(f)
        ELSE NotFound]

RichChoices(dev) ==
    {c \in [dev -> 1..4] : \A f \in dev : c[f] <= Len(RichValues(f))}

Deviations ==
    {x \in SUBSET Range(required_fields) : Cardinality(x) <= MaxDeviations}

ValInit ==
    /\ pages = 0
    /\ lastRows = RowsPerPage
    /\ MAX_PAGES = 0
    /\ pc = "start"
    /\ driver = "none"
    /\ faults = 0
    /\ grade = 1
    /\ attempt = 0
    /\ curPage = 1
    /\ page_number = 1
    /\ last_page = 1
    /\ all_links = <<>>
    /\ walk = NoWalk
    /\ InitPool
    /\ ci = 0
    /\ all_school_data = <<>>
    /\ progress = <<>>
    /\ final = NoFile
    /\ xpc = "idle"
    /\ page = NoPage
    /\ address_text = None
    /\ data_fields = InitialFields
    /\ vpc = "input"
    /\ \E dev \in Deviations :
         \E rich \in RichChoices(dev) :
           \E core \in SUBSET (Range(required_fields) \ dev) :
             school_data = InputRecord(core, rich)
    /\ report = NoReport
    /\ first_report = NoReport

ValNext == Validate

ValSpec == ValInit /\ [][ValNext]_vars

\* ------------------------------------------- extract_school_data, on its own
\* The lines an address block is made of: a street line, the line
\* "city, state zip" (shortened), and its other shapes: one or three tokens
\* after the comma, no blank after the comma, three segments, padding, an
\* empty line, an empty city, nothing after the comma.
AddressLines ==
    { <<"1", " ", "E", "l", "m">>,
      <<"A", "u", ",", " ", "T", "X", " ", "7", "8", "7">>,
      <<"A", "u", ",", " ", "T", "X">>,
      <<"A", "u", ",", " ", "T", "X", " ", "7", "8", "7", " ", "9">>,
      <<"A", "u", ",", "T", "X", " ", "7", "8", "7">>,
      <<"A", "u", ",", " ", "T", "r", ",", " ", "T", "X", " ", "7", "8", "7">>,
      <<"A", "u", ",", " ", "T", "X", " ", "7", "8", "7", ",", " ", "U", "S">>,
      <<" ", "A", "u", " ", ",", " ", "T", "X", " ", " ", "7", "8", "7", " ">>,
      <<>>,
      <<",", " ", "T", "X", " ", "7", "8", "7">>,
      <<"A", "u", ",", " ">> }

RECURSIVE JoinLines(_)
JoinLines(ls) ==
    IF Len(ls) = 1 THEN ls[1] ELSE ls[1] \o <<"\n">> \o JoinLines(Tail(ls))

\* The texts of the address element: up to MaxLines lines, with or without
\* the label in front.
AddressTexts ==
    UNION { { (IF labelled THEN AddressLabel ELSE <<>>) \o JoinLines(ls) :
                ls \in [1..n -> AddressLines], labelled \in BOOLEAN } :
            n \in 1..MaxLines }

\* What the element of a field shows: its label, when it has one, and the
\* value with a blank behind it, or the label and a blank only.
ElementText(field, shown) ==
    replace_text(field) \o (IF shown = "text" THEN ValidValue(field) ELSE <<>>) \o <<" ">>

\* One iteration of the loop over xpath_mappings: a lookup that times out is
\* caught ("not found"); the label is removed; the value is stored, stripped,
\* when it is not blank.
LookupField(fields, field, shown) ==
    IF shown = "absent" THEN fields
    ELSE LET text == ElementText(field, shown)
             value == IF replace_text(field) # <<>>
                      THEN replace(text, replace_text(field)) ELSE text
         IN IF strip(value) # <<>>
            THEN [fields EXCEPT ![field] = strip(value)]
            ELSE fields

RECURSIVE LookupFields(_, _, _)
LookupFields(fields, names, shown) ==
    IF names = <<>> THEN fields
    ELSE LookupFields(LookupField(fields, Head(names), shown[Head(names)]),
                      Tail(names), shown)

\* ", ".join(issues)
RECURSIVE join(_)
join(issues) ==
    IF Len(issues) = 1 THEN issues[1] ELSE issues[1] \o ", " \o join(Tail(issues))

extframe == <<page, address_text, valvars, cfgvars, pc, driver, faults, walkvars, poolvars, collvars>>

\* WebDriverWait(driver, 15) for the body: a timeout is raised in the outer
\* try, whose except logs it; data_fields is returned as it is.
BodyWait ==
    /\ xpc = "body"
    /\ xpc' \in {"fields", "returned"}
    /\ UNCHANGED <<data_fields, extframe>>

\* The loop over xpath_mappings.
PrimaryPass ==
    /\ xpc = "fields"
    /\ data_fields' = LookupFields(data_fields, xpath_fields, page)
    /\ xpc' = "address"
    /\ UNCHANGED extframe

\* validation_results = validate_school_data(data_fields); the score and the
\* joined issues are stored; return data_fields.
ValidateRecord ==
    /\ xpc = "validate"
    /\ LET validation_results == validate_school_data(data_fields) IN
       data_fields' =
          [data_fields EXCEPT
             !["Data Quality Score"] = validation_results.score,
             !["Data Quality Issues"] =
                 IF validation_results.issues # <<>>
                 THEN join(validation_results.issues) ELSE ""]
    /\ xpc' = "returned"
    /\ UNCHANGED extframe

\* A page of all its elements and any address block, or any page (at most
\* one element blank) with no address block or a well-formed one.
FullPage == [f \in Range(xpath_fields) |-> "text"]
Pages ==
    {p \in [Range(xpath_fields) -> {"absent", "blank", "text"}] :
        Cardinality({f \in Range(xpath_fields) : p[f] = "blank"}) <= 1}
GoodAddress == AddressLabel \o <<"1", " ", "E", "l", "m", "\n", "A", "u", ",", " ", "T", "X", " ", "7", "8", "7", "0", "1">>

ExtractInit ==
    /\ pages = 0
    /\ lastRows = RowsPerPage
    /\ MAX_PAGES = 0
    /\ pc = "start"
    /\ driver = "none"
    /\ faults = 0
    /\ grade = 1
    /\ attempt = 0
    /\ curPage = 1
    /\ page_number = 1
    /\ last_page = 1
    /\ all_links = <<>>
    /\ walk = NoWalk
    /\ InitPool
    /\ ci = 0
    /\ all_school_data = <<>>
    /\ progress = <<>>
    /\ final = NoFile
    /\ vpc = "idle"
    /\ school_data = NoData
    /\ report = NoReport
    /\ first_report = NoReport
    /\ xpc = "body"
    /\ \/ page = FullPage /\ address_text \in AddressTexts \cup {None}
       \/ page \in Pages /\ address_text \in {GoodAddress, None}
    /\ data_fields = InitialFields

ExtractNext ==
    \/ BodyWait
    \/ PrimaryPass
    \/ AddressPass
    \/ ValidateRecord

ExtractSpec == ExtractInit /\ [][ExtractNext]_vars

\* =================================================================== claims
\* The walk met no driver fault while paging and did not end in the except
\* clause: the listing behaved as a listing of `pages` pages.
FaultFreeWalk == ~walk.raised /\ ~walk.fault

\* Pages 1..n read once each, in order, each under its own number.
InOrder(n) == [m \in 1..n |-> <<m, m>>]

\* The links of pages 1..n, each stamped with its page.
LinksOfPages(n) == Flatten([m \in 1..n |-> PageLinks(m, m)])

WalkerDone == pc = "walked"

\* C2 (safety part): the walker is Done over a listing of K = pages >= 1
\* non-empty pages whose table rendered and whose clicks took effect, with
\* the cap unset or >= K: it has read pages 1..K once each, in order, no
\* (K+1)-th page, and reports last page K.
C2_ReadsEachPageOnce ==
    (WalkerDone /\ FaultFreeWalk /\ pages >= 1
        /\ (MAX_PAGES = 0 \/ MAX_PAGES >= pages))
    => /\ walk.reads = InOrder(pages)
       /\ last_page = pages
       /\ all_links = LinksOfPages(pages)

\* C2: Pagination termination.  For a listing of exactly K pages and a cap
\* unset or >= K, the walker reads pages 1..K exactly once each in order,
\* never a (K+1)-th page, reports last page K, and, once entered, reaches Done.
C2_PaginationTermination ==
    /\ []C2_ReadsEachPageOnce
    /\ (pc = "filter" /\ pages >= 1 /\ (MAX_PAGES = 0 \/ MAX_PAGES >= pages))
           ~> WalkerDone

\* C2 witness: a fault-free walk over a listing of at least two pages, no cap
\* in the way, has ended after reading all of them.
C2_Witness ==
    /\ WalkerDone /\ FaultFreeWalk
    /\ pages >= 2 /\ MAX_PAGES = 0
    /\ Len(walk.reads) = pages

\* C3 (safety part): under a cap C >= 1 at most C pages are read, no
\* navigation is made from page C on, and a Done fault-free walk over K > C
\* pages has read exactly pages 1..C.
C3_AtMostCapPages ==
    MAX_PAGES >= 1
    => /\ Len(walk.reads) <= MAX_PAGES
       /\ \A n \in walk.navs : n < MAX_PAGES
       /\ (WalkerDone /\ FaultFreeWalk /\ MAX_PAGES < pages)
          => /\ walk.reads = InOrder(MAX_PAGES)
             /\ last_page = MAX_PAGES

\* C3: Page cap.  For any listing and any cap C >= 1 the walker reads at most
\* C pages, navigates no further once page C has been read, and reaches Done;
\* with C below the K available pages it has visited exactly C pages.
C3_PageCap ==
    /\ []C3_AtMostCapPages
    /\ (pc = "filter" /\ MAX_PAGES >= 1) ~> WalkerDone

\* C3 witness: a walk stopped by a cap below the number of pages.
C3_Witness ==
    /\ WalkerDone /\ FaultFreeWalk
    /\ MAX_PAGES >= 1 /\ MAX_PAGES < pages
    /\ Len(walk.reads) = MAX_PAGES

\* C10 (as claimed): Filter degradation.  Each grade selection is attempted at
\* most 3 times, and when all 3 attempts of a selection have failed the walker
\* still goes through the remaining selections and enters Paging (it reads a
\* page) before it is Done.
C10_FilterDegradation ==
    /\ attempt < max_retries
    /\ (WalkerDone /\ walk.raised)
       => (grade = Len(Grades) /\ walk.reads # <<>>)

\* ------------------------------------------------------------ Phase 2
\* A record without the Record Number that save_to_csv writes into it.
Unnumbered(data) == [n \in 1..Len(data) |-> [data[n] EXCEPT !.num = 0]]

\* What batch k returns, from its own links and what its own links did.
Own(k) == ProcessLinks(<<>>, link_batches[k], outcomes[k])

\* The records of the batches 1..n that returned, in batch order.
Merged(n) ==
    Flatten([k \in 1..n |-> IF fut[k] = "done" THEN Own(k) ELSE <<>>])

Failed(k) == k \in 1..Len(fut) /\ fut[k] = "failed"

\* Every submitted batch has been collected and scrape_schools has ended.
AllCollected == pc = "done" /\ fut # <<>> /\ ci = Len(fut)

\* C1: Batch isolation.  The cumulative result holds, for every collected
\* batch that returned, exactly the records that batch produced from its own
\* links (a function of that batch alone), whatever other batches raised;
\* and when the run ends every batch has been collected.
C1_BatchIsolation ==
    /\ Unnumbered(all_school_data) = Merged(ci)
    /\ (pc = "done" /\ fut # <<>>) => ci = Len(fut)

\* C1 witness: the run ended with a batch that raised and a later batch whose
\* records are in the result.
C1_Witness ==
    /\ AllCollected
    /\ \E j, i \in 1..Len(fut) :
         /\ j < i /\ fut[j] = "failed" /\ fut[i] = "done"
         /\ batch_data[i] # <<>>
         /\ Unnumbered(all_school_data) = Merged(Len(fut))

\* C4: Fatal discovery failure.  When Phase 1 returns no link, scrape_schools
\* ends at once: no pool, no batch worker, no checkpoint, no final file.
C4_FatalDiscoveryFailure ==
    /\ [][(WalkerDone /\ all_links = <<>>)
            => (pc' = "done" /\ UNCHANGED <<poolvars, collvars>>)]_vars
    /\ []((pc = "done" /\ all_links = <<>>)
            => (fut = <<>> /\ progress = <<>> /\ final = NoFile))

\* C4 witness: Phase 1 returned (its session is closed) with no link and the
\* run has ended.
C4_Witness == pc = "done" /\ driver = "closed" /\ all_links = <<>>

\* C5: Checkpointing.  Each collected batch i that returned has a checkpoint
\* named i whose rows are the cumulative result at that moment: the records
\* of every batch up to i that returned, numbered 1..n; a batch that raised
\* has none; and the step that collects batch i appends its records and
\* writes the cumulative result as that checkpoint.
C5_CheckpointRows ==
    /\ DOMAIN progress \subseteq 0..(ci - 1)
    /\ \A i \in 0..(ci - 1) :
         IF fut[i + 1] = "done"
         THEN /\ i \in DOMAIN progress
              /\ Unnumbered(progress[i]) = Merged(i + 1)
              /\ \A n \in 1..Len(progress[i]) : progress[i][n].num = n
         ELSE i \notin DOMAIN progress

C5_Checkpointing ==
    /\ []C5_CheckpointRows
    /\ [][(ci' # ci /\ fut[ci + 1] = "done")
            => /\ Unnumbered(all_school_data')
                    = Unnumbered(all_school_data) \o batch_data[ci + 1]
               /\ ci \in DOMAIN progress'
               /\ progress'[ci] = all_school_data']_vars

\* C5 witness: a checkpoint that holds more than its own batch's records,
\* beside a batch that raised and left no checkpoint.
C5_Witness ==
    /\ \E i \in DOMAIN progress :
         i >= 1 /\ Len(progress[i]) > Len(batch_data[i + 1])
    /\ \E j \in 1..ci : Failed(j) /\ (j - 1) \notin DOMAIN progress

\* C6 (as claimed): when Phase 1 yields a link, after all batches completed or
\* failed the final file is written, with exactly the records of the batches
\* that returned.
C6_FinalAlwaysWritten ==
    AllCollected
    => /\ final.written
       /\ Unnumbered(final.rows) = Merged(Len(fut))

\* C6 (amended): after all batches completed or failed, the final file is
\* written if and only if the batches that returned gave at least one record,
\* and then its rows are exactly those records, whichever batches failed.
C6_PartialSuccess ==
    AllCollected
    => IF Merged(Len(fut)) # <<>>
       THEN /\ final.written
            /\ Unnumbered(final.rows) = Merged(Len(fut))
       ELSE final = NoFile

\* C6 witness: a final file written from what succeeded, one batch failed.
C6_Witness ==
    /\ AllCollected
    /\ \E j \in 1..Len(fut) : Failed(j)
    /\ final.written

\* C7: Record numbering.  Row k of the final file carries Record Number k,
\* for k = 1..n, in the order the records were merged.
C7_RecordNumbering ==
    final.written
    => /\ \A n \in 1..Len(final.rows) : final.rows[n].num = n
       /\ Unnumbered(final.rows) = Unnumbered(all_school_data)
       /\ Len(final.rows) >= 1

\* C7 witness: a final file of several rows, written after a batch failed.
C7_Witness ==
    /\ final.written
    /\ Len(final.rows) >= 2
    /\ \E j \in 1..Len(fut) : Failed(j)

\* C8: Session release.  A batch that has returned or raised has no open
\* session; an acquired session is quit exactly once, and it is open only
\* while its batch runs.
C8_SessionRelease ==
    \A k \in 1..Len(fut) :
        /\ fut[k] \in {"done", "failed"} => sess[k] # "open"
        /\ fut[k] = "done" => sess[k] = "closed"
        /\ sess[k] = "closed" <=> quits[k] = 1
        /\ sess[k] = "open" => (fut[k] = "running" /\ quits[k] = 0)
        /\ quits[k] <= 1

\* C8 witness: a batch that raised after links of it failed, its session
\* closed.
C8_Witness ==
    \E k \in 1..Len(fut) :
        /\ fut[k] = "failed" /\ sess[k] = "closed"
        /\ \E n \in 1..Len(outcomes[k]) : outcomes[k][n] # "ok"

\* C9 (as claimed): Per-link containment.  In a batch that ran to its end
\* every link was processed, and the batch result holds a record for a link
\* exactly when that link did not fail (navigation error or total extraction
\* failure).
C9_PerLinkContainment ==
    \A k \in 1..Len(fut) :
        sess[k] = "closed"
        => /\ Len(outcomes[k]) = Len(link_batches[k])
           /\ \A n \in 1..Len(link_batches[k]) :
                (\E r \in Range(batch_data[k]) :
                     /\ r.href = link_batches[k][n].href
                     /\ r.page = link_batches[k][n].page)
                <=> outcomes[k][n] = "ok"

\* C11 (as claimed): Stalled pagination.  When the click on the button for
\* current+1 does not change the page, the walker is Done: it never reads a
\* page it has read already under a higher page number.
C11_StalledPagination ==
    \A a, b \in 1..Len(walk.reads) :
        a < b => walk.reads[a][2] # walk.reads[b][2]

Max(a, b) == IF a >= b THEN a ELSE b

\* C12 (as claimed): Worker-pool size.  Once Phase 2 has read the number c of
\* execution units, the pool has max(c - 1, 1) workers and the batches are
\* submitted to it, also when c = 1.
C12_WorkerPoolSize ==
    cpu_count >= 1
    => /\ num_processes = Max(cpu_count - 1, 1)
       /\ fut # <<>>

\* ------------------------------------------- the validator's contract
\* The required fields in the order the contract lists them, the rule of
\* each field and the message of its failure, as the contract states them.
FieldOrder ==
    <<"School Name", "Address 1", "City", "State", "Zip", "Phone",
      "School Website", "District", "Grades Served", "Principal Name">>

Present(v) == v # None /\ v # <<>>
Sentinel(v) == v = NotFound

DigitCount(v) == Cardinality({n \in 1..Len(v) : IsDigit(v[n])})
TokenCount(v) ==
    Cardinality({n \in 1..Len(v) : ~IsSpace(v[n]) /\ (n = 1 \/ IsSpace(v[n - 1]))})

PassesRule(field, v) ==
    LET t == strip(v) IN
    CASE field = "Zip" -> Len(t) = 5 /\ DigitCount(t) = 5
      [] field = "State" -> upper(t) \in valid_states
      [] field = "Phone" -> DigitCount(t) = 10
      [] field = "School Website" ->
            \/ (Len(t) >= 7 /\ SubSeq(t, 1, 7) = <<"h", "t", "t", "p", ":", "/", "/">>)
            \/ (Len(t) >= 8 /\ SubSeq(t, 1, 8) = <<"h", "t", "t", "p", "s", ":", "/", "/">>)
      [] field = "School Name" ->
            Len(t) >= 3 /\ {n \in 1..Len(t) : IsAlpha(t[n])} # {}
      [] field = "City" ->
            /\ {n \in 1..Len(t) : IsAlpha(t[n])} # {}
            /\ \A n \in 1..Len(t) : t[n] = " " \/ IsAlpha(t[n])
      [] field = "Principal Name" -> TokenCount(t) >= 2
      [] OTHER -> TRUE

RuleFailure(field) ==
    CASE field = "Zip" -> "Invalid ZIP format - must be 5 digits"
      [] field = "State" -> "Invalid state abbreviation"
      [] field = "Phone" -> "Invalid phone number format"
      [] field = "School Website" -> "Invalid website URL format"
      [] field = "School Name" -> "Invalid school name format"
      [] field = "City" -> "City name should only contain letters"
      [] field = "Principal Name" -> "Principal name should include first and last name"
      [] OTHER -> "no rule"

NotAvailable(field) == field \o " not available"

\* The field has a value, not the sentinel, that passes the field's rule.
Good(field, d) ==
    Present(d[field]) /\ ~Sentinel(d[field]) /\ PassesRule(field, d[field])
\* The field has a value, not the sentinel, that fails the field's rule.
Malformed(field, d) ==
    Present(d[field]) /\ ~Sentinel(d[field]) /\ ~PassesRule(field, d[field])

FilledCount(d) == Cardinality({f \in Range(FieldOrder) : Good(f, d)})
FailingFields(d) == SelectSeq(FieldOrder, LAMBDA f : ~Good(f, d))

Called == vpc \in {"once", "twice"}

\* C13: for every record in which each of the 10 required fields is absent
\* or equals the sentinel "Not Found", validate_school_data returns score 0,
\* is_valid false and exactly 10 issues, one "<Field> not available" for each
\* required field.
C13_AllMissing ==
    (/\ Called
     /\ \A f \in Range(FieldOrder) : school_data[f] = None \/ Sentinel(school_data[f]))
    => /\ report.score = 0
       /\ ~report.is_valid
       /\ Len(report.issues) = 10
       /\ Range(report.issues) = {NotAvailable(f) : f \in Range(FieldOrder)}

C13_Witness ==
    /\ Called
    /\ \A f \in Range(FieldOrder) : school_data[f] = None \/ Sentinel(school_data[f])
    /\ \E f \in Range(FieldOrder) : school_data[f] = None
    /\ \E f \in Range(FieldOrder) : Sentinel(school_data[f])
    /\ report.score = 0
    /\ Len(report.issues) = 10

\* C14: for every record in which each of the 10 required fields is present
\* and passes its field-specific rule, validate_school_data returns score
\* 100, is_valid true and an empty issues list.
C14_AllValid ==
    (Called /\ \A f \in Range(FieldOrder) : Good(f, school_data))
    => /\ report.score = 100
       /\ report.is_valid
       /\ report.issues = <<>>

C14_Witness ==
    /\ Called
    /\ \A f \in Range(FieldOrder) : Good(f, school_data)
    /\ school_data["School Website"] = <<"h", "t", "t", "p", ":", "/", "/", "t", ".", "c", "o">>
    /\ report.score = 100

\* C15: for every record the score equals floor(filled * 100 / 10), where
\* filled is the number of required fields that are present, not the
\* sentinel, and pass their rule; the score is an integer in 0..100 and
\* is_valid is true if and only if the score is 100.
C15_Score ==
    Called
    => /\ report.score = (FilledCount(school_data) * 100) \div 10
       /\ report.score \in 0..100
       /\ report.is_valid <=> report.score = 100

C15_Witness ==
    /\ Called
    /\ FilledCount(school_data) = 7
    /\ \E f \in Range(FieldOrder) : Malformed(f, school_data)
    /\ report.score = 70
    /\ ~report.is_valid

\* C16: the issues list holds one issue for each failing required field and
\* no other, in the order School Name, Address 1, City, State, Zip, Phone,
\* School Website, District, Grades Served, Principal Name; so the first
\* issue belongs to the earliest failing field.
C16_IssueOrdering ==
    Called
    => LET failing == FailingFields(school_data) IN
       /\ Len(report.issues) = Len(failing)
       /\ \A n \in 1..Len(failing) :
            report.issues[n] \in {NotAvailable(failing[n]), RuleFailure(failing[n])}

C16_Witness ==
    /\ Called
    /\ Len(report.issues) >= 3
    /\ report.issues[1] = RuleFailure("City")
    /\ report.issues[2] = NotAvailable("Zip")
    /\ report.issues[3] = NotAvailable("District")

\* C17: for every record whose required fields are all valid except exactly
\* one field F, is_valid is false and issues[0] is F's message: F's
\* rule-failure string when F's value violates its rule, and
\* "<F> not available" when F is the sentinel "Not Found".
C17_SingleFailure ==
    \A F \in Range(FieldOrder) :
        (/\ Called
         /\ \A g \in Range(FieldOrder) \ {F} : Good(g, school_data)
         /\ Sentinel(school_data[F]) \/ Malformed(F, school_data))
        => /\ ~report.is_valid
           /\ report.issues # <<>>
           /\ report.issues[1] = IF Sentinel(school_data[F])
                                 THEN NotAvailable(F) ELSE RuleFailure(F)

C17_Witness ==
    /\ Called
    /\ \A g \in Range(FieldOrder) \ {"School Name"} : Good(g, school_data)
    /\ Malformed("School Name", school_data)
    /\ \A n \in 1..Len(school_data["School Name"]) : ~IsAlpha(school_data["School Name"][n])
    /\ report.issues = <<"Invalid school name format">>

C19_PhoneRule ==
    (Called /\ Present(school_data["Phone"]) /\ ~Sentinel(school_data["Phone"]))
    => LET ten == DigitCount(school_data["Phone"]) = 10
           others == \A g \in Range(FieldOrder) \ {"Phone"} : Good(g, school_data)
       IN /\ "Invalid phone number format" \in Range(report.issues) <=> ~ten
          /\ NotAvailable("Phone") \notin Range(report.issues)
          /\ others => (report.is_valid <=> ten)

C19_Witness ==
    /\ Called
    /\ DigitCount(school_data["Phone"]) = 11
    /\ report.issues = <<"Invalid phone number format">>

\* ------------------------------------------- the address pass's contract
\* The lines of the address block, and the segments of its last line.
BlockLines(text) == split_on(strip(replace(text, AddressLabel)), <<"\n">>)
LastSegments(text) ==
    split_on(BlockLines(text)[Len(BlockLines(text))], <<",", " ">>)

\* The block has two lines or more and its last line splits on ", " into a
\* city segment and, next to it, a further segment.
CityShape(text) ==
    /\ text # None
    /\ Len(BlockLines(text)) >= 2
    /\ Len(LastSegments(text)) >= 2
\* ... a further segment of exactly two whitespace-separated tokens.
StateZipShape(text) ==
    CityShape(text) /\ TokenCount(LastSegments(text)[2]) = 2

Kept(field) == data_fields'[field] = data_fields[field]

\* C20 (as claimed): State and Zip are set from the address block only if its
\* last line splits on ", " into a city segment and a segment of exactly two
\* whitespace-separated tokens; for any other shape of the block City, State
\* and Zip all keep the values they had before the address pass, and no
\* exception propagates.
C20_AddressDecomposition ==
    [][xpc = "address"
       => /\ (~Kept("State") \/ ~Kept("Zip")) => StateZipShape(address_text)
          /\ ~StateZipShape(address_text)
                => Kept("City") /\ Kept("State") /\ Kept("Zip")
          /\ xpc' = "validate"]_vars

\* C20 (amended): State and Zip are set only if the block has that shape, and
\* then to the two tokens; City is set, to the trimmed city segment, whenever
\* the block has two lines or more and its last line splits on ", " into two
\* segments or more, whatever the second segment holds; for any other shape,
\* and when the element is not found, City, State and Zip keep their values;
\* no exception propagates.
C20_AddressPass ==
    [][xpc = "address"
       => /\ (~Kept("State") \/ ~Kept("Zip")) => StateZipShape(address_text)
          /\ StateZipShape(address_text)
                => LET tokens == split(LastSegments(address_text)[2]) IN
                   /\ data_fields'["State"] = tokens[1]
                   /\ data_fields'["Zip"] = tokens[2]
          /\ ~StateZipShape(address_text) => Kept("State") /\ Kept("Zip")
          /\ CityShape(address_text)
                => data_fields'["City"] = strip(LastSegments(address_text)[1])
          /\ ~CityShape(address_text) => Kept("City")
          /\ xpc' = "validate"]_vars

\* The last line is "Au, TX": the city is set, state and zip are not.
C20_Witness ==
    /\ xpc = "validate"
    /\ address_text # None
    /\ CityShape(address_text)
    /\ ~StateZipShape(address_text)
    /\ data_fields["City"] = <<"A", "u">>
    /\ data_fields["State"] = NotFound
    /\ data_fields["Zip"] = NotFound

\* ------------------------------------------- the extractor's quality fields
\* The issues joined by ", ", the empty string when there is none.
RECURSIVE JoinedFrom(_, _)
JoinedFrom(acc, issues) ==
    IF issues = <<>> THEN acc
    ELSE JoinedFrom(acc \o ", " \o Head(issues), Tail(issues))
Joined(issues) ==
    IF issues = <<>> THEN "" ELSE JoinedFrom(Head(issues), Tail(issues))

\* C21 (as claimed): every record returned by extract_school_data carries a
\* Data Quality Score equal to the score, and Data Quality Issues equal to
\* the joined issues, that validate_school_data returns for the record's
\* field values, on every path by which a record is returned.
C21_QualityFields ==
    xpc = "returned"
    => LET expected == validate_school_data(data_fields) IN
       /\ data_fields["Data Quality Score"] = expected.score
       /\ data_fields["Data Quality Issues"] = Joined(expected.issues)

\* C22 (as claimed): from a record's creation until the final file is
\* written no operation, in particular no checkpoint write, assigns or
\* changes its Record Number: while scrape_schools has not reached the final
\* write every record of the cumulative result still has the number 0 it was
\* created with, and every step before it leaves the numbers as they are.
C22_NumberOnlyAtFinal ==
    /\ [](pc = "collect" => \A n \in 1..Len(all_school_data) :
                                all_school_data[n].num = 0)
    /\ [][pc' = "collect"
          => \A n \in 1..Len(all_school_data) :
                all_school_data'[n].num = all_school_data[n].num]_vars

\* ------------------------------------------------------- the merge order
\* The link a record was extracted from, and its place in the link set (a
\* link is read once under each page number, so the place is unique).
LinkOf(rec) == [href |-> rec.href, page |-> rec.page]
Place(rec) == CHOOSE n \in 1..Len(all_links) : all_links[n] = LinkOf(rec)
BatchOf(rec) == ((Place(rec) - 1) \div BatchSize) + 1

\* The rows follow the link set: ascending batch index, and inside a batch
\* the order of its links.
FollowsLinks(rows) ==
    /\ \A n \in 1..Len(rows) : LinkOf(rows[n]) \in Range(all_links)
    /\ \A a, b \in 1..Len(rows) :
          a < b => /\ BatchOf(rows[a]) <= BatchOf(rows[b])
                   /\ Place(rows[a]) < Place(rows[b])

IsPrefix(a, b) == Len(a) <= Len(b) /\ SubSeq(b, 1, Len(a)) = a

C25_PhaseOneSession ==
    /\ pc = "done" => driver # "open"
    /\ (\E k \in 1..Len(sess) : sess[k] # "none") => driver = "closed"

====
